---- MODULE Spec2Model ----
(***************************************************************************)
(* A model of polyopt's POPSolver (src/polyopt/POPSolver.py): the          *)
(* translation of a polynomial optimization problem  min f(x), g_i(x) >= 0 *)
(* into the data of a moment/SOS relaxation of order d.                    *)
(*                                                                         *)
(* Conventions.  Python indexes from 0, TLA+ sequences from 1: position k  *)
(* of a Python list is position k+1 here, so varUsed[0] (the constant      *)
(* monomial) is varUsed[1], and c[k-1] = f.get(varUsed[k], 0) reads        *)
(* c[k] = get(f, varUsed[k+1], 0).  A monomial is a tuple of exponents, a  *)
(* polynomial (a dict) is the sequence of its items <<monomial, coef>>     *)
(* with distinct monomials, a matrix is a sequence of rows, a family is a  *)
(* sequence of matrices.  An object's attributes are the fields of the     *)
(* record self; an attribute that has not been assigned is not in          *)
(* DOMAIN self.                                                            *)
(***************************************************************************)
EXTENDS Integers, Sequences, FiniteSets, TLC

VARIABLES
  pc,       \* "new": before POPSolver(f, g, d); "ready": constructed; "failed": __init__ raised
  f, g, d,  \* the arguments of POPSolver.__init__
  self,     \* the attributes of the POPSolver object
  call,     \* the last call made on the object, with its arguments
  outcome,  \* how that call ended: a return value or a raised exception
  solveInvoked, \* history: solve() has been called on the object
  rpc,      \* position inside getFeasiblePointFromRadius: "idle", "loop", "done"
  loc       \* the locals of the running getFeasiblePointFromRadius: R, N, i, xs

vars == <<pc, f, g, d, self, call, outcome, solveInvoked, rpc, loc>>

\* ------------------------------------------------------------------ bounds

MaxD == 2        \* relaxation order, 0..MaxD
MaxSamples == 3  \* length of a sample list handed to getFeasiblePoint
MaxLoop == 10    \* turns of the longest rejection loop followed

\* ------------------------------------------------------------- arithmetic

\* ceil(a / b) for a >= 0, b > 0
Ceil(a, b) == (a + b - 1) \div b

RECURSIVE Pow(_, _)
\* x ** e, with 0 ** 0 = 1 as in Python
Pow(x, e) == IF e = 0 THEN 1 ELSE x * Pow(x, e - 1)

RECURSIVE comb(_, _)
\* scipy.special.comb(N, k): the binomial coefficient
comb(N, k) == IF k = 0 THEN 1 ELSE (comb(N, k - 1) * (N - k + 1)) \div k

RECURSIVE SumUpTo(_, _)
SumUpTo(s, k) == IF k = 0 THEN 0 ELSE SumUpTo(s, k - 1) + s[k]

\* sum(s)
SeqSum(s) == SumUpTo(s, Len(s))

\* max(list) of a non-empty list
SeqMax(s) == CHOOSE m \in {s[k] : k \in 1..Len(s)} : \A k \in 1..Len(s) : s[k] <= m

Range(lo, hi) == [k \in 1..(hi - lo + 1) |-> lo + k - 1]

\* ------------------------------------------------- monomials, polynomials

Zero(n) == [k \in 1..n |-> 0]
Unit(n, k, e) == [j \in 1..n |-> IF j = k THEN e ELSE 0]

\* tuple(sum(t) for t in zip(a, b))
TupleSum(a, b) == [k \in 1..(IF Len(a) < Len(b) THEN Len(a) ELSE Len(b)) |-> a[k] + b[k]]

\* dict.keys(), dict.get(key, default) on the item sequence of a dict
keys(p) == [k \in 1..Len(p) |-> p[k][1]]
get(p, key, default) ==
  LET hit == {k \in 1..Len(p) : p[k][1] = key}
  IN IF hit = {} THEN default ELSE p[CHOOSE k \in hit : TRUE][2]

\* ----------------------------------------------------- Polalg (external)

RECURSIVE MonosOfDegree(_, _)
\* the n-tuples of degree exactly k, the highest power of the first variable first
MonosOfDegree(n, k) ==
  IF n = 0 THEN (IF k = 0 THEN << <<>> >> ELSE <<>>)
  ELSE LET RECURSIVE From(_)
           From(a) == IF a < 0 THEN <<>>
                      ELSE LET rest == MonosOfDegree(n - 1, k - a)
                           IN [t \in 1..Len(rest) |-> <<a>> \o rest[t]] \o From(a - 1)
       IN From(k)

RECURSIVE MonosUpTo(_, _)
MonosUpTo(n, k) == IF k < 0 THEN <<>> ELSE MonosUpTo(n, k - 1) \o MonosOfDegree(n, k)

\* Polalg.generateVariablesUpDegree(d, n): every n-tuple of degree <= d once,
\* the constant first, then by degree
generateVariablesUpDegree(dd, n) == MonosUpTo(n, dd)

\* ------------------------------------------------------- matrix families
(***************************************************************************)
(* The loops of momentMatrix and localizingMatrix run over the pairs       *)
(* (i, j) with i <= j; the iteration (i, j) looks varCur up in varUsed and *)
(* writes the cells [i, j] and [j, i] of the matrix at the position found. *)
(* No iteration reads a cell, and the iteration (i, j) is the only one     *)
(* that writes [i, j] and [j, i], so the loops are modelled cell by cell:  *)
(* a cell of the result is what its one iteration wrote there.  Found      *)
(* gives, per iteration, the position written (0: len(index) = 0).         *)
(***************************************************************************)

zeros(rows, cols) == [i \in 1..rows |-> [j \in 1..cols |-> 0]]

\* index = [k for k in range(0, varUsedNum) if varUsed[k] == varCur]
Index(varUsed, varCur) ==
  SelectSeq(Range(1, Len(varUsed)), LAMBDA k : varUsed[k] = varCur)

\* if len(index) > 0: pos = index[0]
Pos(index) == IF Len(index) > 0 THEN index[1] ELSE 0

MMvarCurSame(varUpD, i, j) == TupleSum(varUpD[i], varUpD[i])

\* varCur = tuple(sum(t) for t in zip(varUpD[i], varUpD[j]))
MMvarCur(varUpD, i, j) == TupleSum(varUpD[i], varUpD[j])

\* the position the iteration (i, j), i <= j, of momentMatrix's loop finds
MMFound(varUpD, varUsed) ==
  [i \in 1..Len(varUpD) |-> [j \in 1..Len(varUpD) |->
     IF i <= j THEN Pos(Index(varUsed, MMvarCur(varUpD, i, j))) ELSE 0]]

\* MM[pos][i, j] = 1; MM[pos][j, i] = 1, on a matrix of zeros
MMcell(found, pos, i, j) ==
  IF (i <= j /\ found[i][j] = pos) \/ (j <= i /\ found[j][i] = pos) THEN 1 ELSE 0

\* POPSolver.momentMatrix(d, varUsed), on an object with self.n = n
momentMatrix(n, dd, varUsed) ==
  LET varUpD == generateVariablesUpDegree(dd, n)
      dimM == Len(varUpD)
      found == MMFound(varUpD, varUsed)
  IN [pos \in 1..Len(varUsed) |-> [i \in 1..dimM |-> [j \in 1..dimM |->
        MMcell(found, pos, i, j)]]]

\* varCur = tuple(sum(t) for t in zip(varUpD[i], varUpD[j], mon))
LMvarCur(varUpD, i, j, mon) == TupleSum(TupleSum(varUpD[i], varUpD[j]), mon)

\* the position the iteration (i, j), i <= j, of localizingMatrix's loop finds for mon
LMFound(varUpD, varUsed, mon) ==
  [i \in 1..Len(varUpD) |-> [j \in 1..Len(varUpD) |->
     IF i <= j THEN Pos(Index(varUsed, LMvarCur(varUpD, i, j, mon))) ELSE 0]]

LMaddedDiagTwice(found, coef, pos, i, j) ==
  (IF i <= j /\ found[i][j] = pos THEN coef ELSE 0)
    + (IF j <= i /\ found[j][i] = pos THEN coef ELSE 0)

\* LM[pos][i, j] += coef; if i != j: LM[pos][j, i] += coef: what one monomial adds to a cell
LMadded(found, coef, pos, i, j) ==
  (IF i <= j /\ found[i][j] = pos THEN coef ELSE 0)
    + (IF j < i /\ found[j][i] = pos THEN coef ELSE 0)

\* one turn of "for mon, coef in g.items()": the two inner loops
LMstep(LM, varUpD, varUsed, mon, coef) ==
  LET found == LMFound(varUpD, varUsed, mon)
  IN [pos \in 1..Len(LM) |-> [i \in 1..Len(varUpD) |-> [j \in 1..Len(varUpD) |->
        LM[pos][i][j] + LMadded(found, coef, pos, i, j)]]]

RECURSIVE LMLoop(_, _, _, _, _)
\* for mon, coef in g.items(): ..., from the t-th item on
LMLoop(LM, varUpD, varUsed, gi, t) ==
  IF t > Len(gi) THEN LM
  ELSE LMLoop(LMstep(LM, varUpD, varUsed, gi[t][1], gi[t][2]), varUpD, varUsed, gi, t + 1)

\* POPSolver.localizingMatrix(d, varUsed, g), on an object with self.n = n
localizingMatrix(n, dd, varUsed, gi) ==
  LET varUpD == generateVariablesUpDegree(dd, n)
      dimM == Len(varUpD)
      LM == [k \in 1..Len(varUsed) |-> zeros(dimM, dimM)]
  IN LMLoop(LM, varUpD, varUsed, gi, 1)

\* ------------------------------------------------ SDPSolver (external)

\* SDPSolver(c, AAll): the engine keeps the objective and the families it is
\* given; it has not solved anything yet
SDPSolver(c, AAll) ==
  [c |-> c, AAll |-> AAll, solved |-> FALSE, ranks |-> <<>>, printOutput |-> FALSE]

\* ---------------------------------------------------- POPSolver.__init__

ValueError(msg, arg) == [type |-> "ValueError", msg |-> msg, arg |-> arg]

gDegsHalfFloor(gg) ==
  [t \in 1..Len(gg) |->
     SeqMax([k \in 1..Len(gg[t]) |-> SeqSum(keys(gg[t])[k])]) \div 2]

\* gDegsHalf = [int(ceil(max([sum(k) for k in gi.keys()])/2)) for gi in g]
gDegsHalf(gg) ==
  [t \in 1..Len(gg) |->
     Ceil(SeqMax([k \in 1..Len(gg[t]) |-> SeqSum(keys(gg[t])[k])]), 2)]

objectiveFromZero(ff, varUsed) ==
  [k \in 1..(Len(varUsed) - 1) |-> get(ff, varUsed[k], 0)]

\* c = zeros((len(varUsed) - 1, 1))
\* for variable in range(1, len(varUsed)): c[variable - 1, 0] = f.get(varUsed[variable], 0)
objective(ff, varUsed) ==
  [k \in 1..(Len(varUsed) - 1) |-> get(ff, varUsed[k + 1], 0)]

LMorderD(dd, ri) == dd

\* the order self.d - ri handed to localizingMatrix
LMorder(dd, ri) == dd - ri

\* [self.localizingMatrix(self.d - ri, varUsed, gi) for gi, ri in zip(g, gDegsHalf)]
LMfamilies(n, dd, varUsed, gg, half) ==
  [t \in 1..Len(gg) |-> localizingMatrix(n, LMorder(dd, half[t]), varUsed, gg[t])]

NewObject == [class |-> "POPSolver"]

\* the attributes __init__ sets when the order check passes (lines 40-65)
Build(ff, gg, dd) ==
  LET n == Len(keys(ff)[1])
      allVar == generateVariablesUpDegree(2 * dd, n)
      varUsed == allVar
      MM == momentMatrix(n, dd, varUsed)
      LM == LMfamilies(n, dd, varUsed, gg, gDegsHalf(gg))
      c == objective(ff, varUsed)
  IN [class |-> "POPSolver", n |-> n, d |-> dd, logStdout |-> [level |-> "WARNING"],
      MM |-> MM, LM |-> LM, c |-> c, SDP |-> SDPSolver(c, <<MM>> \o LM)]

\* What POPSolver(f, g, d) does: the exception it raises, or the object it builds.
\* max() of an empty list raises ValueError, be it the list of the keys of a
\* constraint or gDegsHalf itself.
init(ff, gg, dd) ==
  IF gg = <<>> \/ \E t \in 1..Len(gg) : gg[t] = <<>>
  THEN [raised |-> TRUE, self |-> NewObject,
        error |-> ValueError("max() arg is an empty sequence", 0)]
  ELSE IF SeqMax(gDegsHalf(gg)) > dd
  THEN [raised |-> TRUE, self |-> NewObject,
        error |-> ValueError("The relaxation order has to be at least {:d}.",
                             SeqMax(gDegsHalf(gg)))]
  ELSE [raised |-> FALSE, self |-> Build(ff, gg, dd)]

\* ------------------------------------------------- the other methods

\* SDPSolver.solve(startPoint, algorithm): the engine ends at a vector y, one entry
\* per entry of c, and knows the ranks of its families from then on
SDPsolve(SDP, y, ranks) == [SDP EXCEPT !.solved = TRUE, !.ranks = ranks]

\* SDPSolver.ranks(): the ranks of the families at the solved point, in the order
\* the families were given; a ValueError before any solve
SDPranks(SDP) ==
  IF ~SDP.solved
  THEN [raised |-> TRUE, error |-> ValueError("The problem has not been solved yet.", 0)]
  ELSE [raised |-> FALSE, value |-> SDP.ranks]

\* SDPSolver.setPrintOutput(printOutput)
SDPsetPrintOutput(SDP, printOutput) == [SDP EXCEPT !.printOutput = printOutput]

\* x = y[0:self.n, :]
solveResult(slf, y) == SubSeq(y, 1, IF slf.n < Len(y) THEN slf.n ELSE Len(y))

momentMatrixRankLast(slf) ==
  LET r == SDPranks(slf.SDP)
  IN IF r.raised THEN r ELSE [raised |-> FALSE, value |-> r.value[Len(r.value)]]

\* return self.SDP.ranks()[0]
momentMatrixRank(slf) ==
  LET r == SDPranks(slf.SDP)
  IN IF r.raised THEN r ELSE [raised |-> FALSE, value |-> r.value[1]]

samplesNeededLess(slf) == comb(slf.n + slf.d, slf.n) - 1

\* N = comb(self.n + self.d, self.n)
samplesNeeded(slf) == comb(slf.n + slf.d, slf.n)

RECURSIVE yTempTimes(_, _, _)
yTempTimes(x, alpha, j) ==
  IF j > Len(x) THEN 1 ELSE (x[j] * alpha[j]) * yTempTimes(x, alpha, j + 1)

RECURSIVE yTemp(_, _, _)
\* yTemp = 1; for j in range(0, self.n): yTemp *= x[j, 0]**usedVars[alpha][j], from j on
yTemp(x, alpha, j) ==
  IF j > Len(x) THEN 1 ELSE Pow(x[j], alpha[j]) * yTemp(x, alpha, j + 1)

\* POPSolver.getFeasiblePoint(xs).  The vector y / len(xs) is kept as the sums y
\* and the divisor len(xs): entry alpha of the result is sum[alpha] / over.
getFeasiblePoint(slf, xs) ==
  LET N == samplesNeeded(slf)
  IN IF Len(xs) < N
     THEN [raised |-> TRUE,
           error |-> ValueError("You must provide at least {:d} points.", N)]
     ELSE LET usedVars == Tail(generateVariablesUpDegree(2 * slf.d, slf.n))
              y == [alpha \in 1..Len(usedVars) |->
                      SeqSum([s \in 1..Len(xs) |-> yTemp(xs[s], usedVars[alpha], 1)])]
          IN [raised |-> FALSE, value |-> [sum |-> y, over |-> Len(xs)]]

\* the square of the Euclidean norm of x
SumSq(x) == SeqSum([k \in 1..Len(x) |-> x[k] * x[k]])

inRadiusClosed(x, R) == R >= 0 /\ SumSq(x) <= R * R

\* norm(x) < R, norm the Euclidean norm: never when R <= 0
inRadius(x, R) == R > 0 /\ SumSq(x) < R * R

\* N = comb(self.n + self.d, self.n); N = ceil(N*1.5 + 1)
radiusN(slf) == Ceil(3 * comb(slf.n + slf.d, slf.n) + 2, 2)

\* how a call that raised, or returned, shows in outcome
Outcome(r) == IF r.raised THEN [kind |-> "raise", error |-> r.error]
              ELSE [kind |-> "return", value |-> r.value]

\* ------------------------------------------------------------- the inputs

\* the numbers of decision variables tried
Arities == {1, 2}

\* objectives in n variables: with and without a constant term, two that differ
\* in the constant term only, one with a monomial of degree 3
FInputs(n) ==
  { << <<Unit(n, 1, 1), 3>> >>,
    << <<Zero(n), 5>>, <<Unit(n, n, 2), 3>> >>,
    << <<Zero(n), 7>>, <<Unit(n, n, 2), 3>> >>,
    << <<TupleSum(Unit(n, 1, 1), Unit(n, n, 1)), -2>>, <<Zero(n), 5>>, <<Unit(n, n, 3), 4>> >> }

\* constraints in n variables
GConst(n) == << <<Zero(n), 1>> >>                                \* 1            (degree 0)
GLin(n) == << <<Unit(n, n, 1), 2>> >>                            \* 2 x_n        (degree 1)
GBall(n) == << <<Zero(n), 1>>, <<Unit(n, 1, 2), -1>> >>          \* 1 - x_1^2    (degree 2)
GMixed(n) ==                                                     \* x_1 x_n + 3 x_n (degree 2)
  << <<TupleSum(Unit(n, 1, 1), Unit(n, n, 1)), 1>>, <<Unit(n, n, 1), 3>> >>
GCubic(n) == << <<Unit(n, n, 3), 1>> >>                          \* x_n^3        (degree 3)
GQuartic(n) == << <<Unit(n, 1, 4), -1>>, <<Zero(n), 2>> >>       \* 2 - x_1^4    (degree 4)

\* lists of constraints: none, one, two in both orders, three
GInputs(n) ==
  { <<>>, <<GConst(n)>>, <<GLin(n)>>, <<GBall(n)>>, <<GMixed(n)>>, <<GCubic(n)>>,
    <<GQuartic(n)>>, <<GBall(n), GConst(n)>>, <<GConst(n), GBall(n)>>,
    <<GLin(n), GQuartic(n), GMixed(n)>> }

NoCall == [op |-> "none"]
NoOutcome == [kind |-> "none"]
NoLocals == [R |-> 0, N |-> 0, i |-> 0, xs |-> <<>>]

\* ---------------------------------------------------------------- actions

Init ==
  /\ pc = "new"
  /\ \E n \in Arities : f \in FInputs(n) /\ g \in GInputs(n)
  /\ d \in 0..MaxD
  /\ self = NewObject
  /\ call = NoCall
  /\ outcome = NoOutcome
  /\ solveInvoked = FALSE
  /\ rpc = "idle"
  /\ loc = NoLocals

\* POPSolver(f, g, d)
Construct ==
  /\ pc = "new"
  /\ LET r == init(f, g, d)
     IN /\ self' = r.self
        /\ pc' = IF r.raised THEN "failed" ELSE "ready"
        /\ outcome' = IF r.raised THEN [kind |-> "raise", error |-> r.error]
                      ELSE [kind |-> "return"]
  /\ call' = [op |-> "__init__"]
  /\ UNCHANGED <<f, g, d, solveInvoked, rpc, loc>>

\* the points of R^n handed to getFeasiblePoint
SamplePoints(n) == [1..n -> {-1, 2}]

\* the vectors the engine may end at, and the ranks it may report: each family has
\* rank 0 or full rank
EngineVectors(len) == {[k \in 1..len |-> v] : v \in {0, 1}}
EngineRanks(AAll) ==
  {r \in [1..Len(AAll) -> 0..Len(AAll[1][1])] :
     \A k \in 1..Len(AAll) : r[k] \in {0, Len(AAll[k][1])}}

\* solve(startPoint)
Solve ==
  /\ pc = "ready" /\ rpc = "idle"
  /\ \E y \in EngineVectors(Len(self.c)) : \E ranks \in EngineRanks(self.SDP.AAll) :
       /\ self' = [self EXCEPT !.SDP = SDPsolve(self.SDP, y, ranks)]
       /\ outcome' = [kind |-> "return", value |-> solveResult(self, y)]
  /\ call' = [op |-> "solve"]
  /\ solveInvoked' = TRUE
  /\ UNCHANGED <<pc, f, g, d, rpc, loc>>

\* setPrintOutput(printOutput)
SetPrintOutput ==
  /\ pc = "ready" /\ rpc = "idle"
  /\ \E printOutput \in BOOLEAN :
       /\ self' = [self EXCEPT !.SDP = SDPsetPrintOutput(self.SDP, printOutput),
                               !.logStdout.level = IF printOutput THEN "INFO" ELSE "WARNING"]
       /\ call' = [op |-> "setPrintOutput", printOutput |-> printOutput]
  /\ outcome' = [kind |-> "return"]
  /\ UNCHANGED <<pc, f, g, d, solveInvoked, rpc, loc>>

\* momentMatrixRank()
MomentMatrixRank ==
  /\ pc = "ready" /\ rpc = "idle"
  /\ outcome' = Outcome(momentMatrixRank(self))
  /\ call' = [op |-> "momentMatrixRank"]
  /\ UNCHANGED <<pc, f, g, d, self, solveInvoked, rpc, loc>>

\* getFeasiblePoint(xs)
GetFeasiblePoint ==
  /\ pc = "ready" /\ rpc = "idle"
  /\ \E len \in 0..MaxSamples : \E xs \in [1..len -> SamplePoints(self.n)] :
       /\ outcome' = Outcome(getFeasiblePoint(self, xs))
       /\ call' = [op |-> "getFeasiblePoint", xs |-> xs]
  /\ UNCHANGED <<pc, f, g, d, self, solveInvoked, rpc, loc>>

Next == Construct

Spec == Init /\ [][Next]_vars

\* the radii tried, and the points uniform(-R, R, (n, 1)) may draw in the cube
\* [-|R|, |R|]^n: its centre, a corner, a point of the sphere of radius |R|, and
\* a unit vector
Radii == {-1, 0, 1, 2}
Abs(v) == IF v < 0 THEN -v ELSE v
Draws(R, n) ==
  {x \in {Zero(n), [k \in 1..n |-> R], Unit(n, 1, R), Unit(n, n, 1)} :
     \A k \in 1..n : Abs(x[k]) <= Abs(R)}

\* getFeasiblePointFromRadius(R), up to the loop: lines 225-229
RadiusCall ==
  /\ pc = "ready" /\ rpc = "idle" /\ call.op = "__init__"
  /\ radiusN(self) <= MaxLoop
  /\ \E R \in Radii :
       /\ loc' = [R |-> R, N |-> radiusN(self), i |-> 0, xs |-> <<>>]
       /\ call' = [op |-> "getFeasiblePointFromRadius", R |-> R]
  /\ rpc' = "loop"
  /\ outcome' = [kind |-> "running"]
  /\ UNCHANGED <<pc, f, g, d, self, solveInvoked>>

\* one turn of the loop whose draw is inside the ball: xs.append(x); i += 1
RadiusAccept ==
  /\ rpc = "loop" /\ loc.i < loc.N
  /\ \E x \in Draws(loc.R, self.n) :
       /\ inRadius(x, loc.R)
       /\ loc' = [loc EXCEPT !.xs = Append(@, x), !.i = @ + 1]
  /\ UNCHANGED <<pc, f, g, d, self, call, outcome, solveInvoked, rpc>>

\* one turn of the loop whose draw is not inside the ball: nothing changes
RadiusReject ==
  /\ rpc = "loop" /\ loc.i < loc.N
  /\ \E x \in Draws(loc.R, self.n) : ~inRadius(x, loc.R)
  /\ UNCHANGED vars

\* the loop is left: return self.getFeasiblePoint(xs)
RadiusReturn ==
  /\ rpc = "loop" /\ ~(loc.i < loc.N)
  /\ outcome' = Outcome(getFeasiblePoint(self, loc.xs))
  /\ rpc' = "done"
  /\ UNCHANGED <<pc, f, g, d, self, call, solveInvoked, loc>>

\* The methods of a constructed object, on one problem per arity and order:
\* minimize x_1 subject to 1 >= 0
InitApi ==
  /\ pc = "new"
  /\ \E n \in Arities : f = << <<Unit(n, 1, 1), 3>> >> /\ g = <<GConst(n)>>
  /\ d \in 0..MaxD
  /\ self = NewObject
  /\ call = NoCall
  /\ outcome = NoOutcome
  /\ solveInvoked = FALSE
  /\ rpc = "idle"
  /\ loc = NoLocals

NextApi == Construct \/ Solve \/ SetPrintOutput \/ MomentMatrixRank

ApiSpec == InitApi /\ [][NextApi]_vars

\* getFeasiblePoint reads the object and changes nothing, so what a call returns
\* does not depend on the calls before it: it is tried as the first call on a
\* new object, on every sample list within the bounds
FirstGetFeasiblePoint == call.op = "__init__" /\ GetFeasiblePoint

NextSamples == Construct \/ FirstGetFeasiblePoint

SamplesSpec == InitApi /\ [][NextSamples]_vars

NextRadius == Construct \/ RadiusCall \/ RadiusAccept \/ RadiusReject \/ RadiusReturn

\* A draw inside the ball comes eventually whenever the loop runs and there is one
\* to draw.
RadiusSpec == InitApi /\ [][NextRadius]_vars /\ WF_vars(RadiusAccept)

\* ------------------------------------------- what the claims speak about

Degree(mon) == SeqSum(mon)

\* deg(p): the largest degree of a monomial of p
PolyDegree(p) ==
  CHOOSE m \in {Degree(p[k][1]) : k \in 1..Len(p)} :
    \A k \in 1..Len(p) : Degree(p[k][1]) <= m

\* ceil(deg(p) / 2)
HalfDegree(p) == (PolyDegree(p) + 1) \div 2

\* max_i ceil(deg(g_i) / 2), of a non-empty list of constraints
RequiredOrder(gg) ==
  CHOOSE m \in {HalfDegree(gg[t]) : t \in 1..Len(gg)} :
    \A t \in 1..Len(gg) : HalfDegree(gg[t]) <= m

\* the coefficient of mon in p: 0 when p has no such monomial
Coefficient(p, mon) ==
  SeqSum([k \in 1..Len(p) |-> IF p[k][1] = mon THEN p[k][2] ELSE 0])

\* the number of variables of the problem
Arity == Len(f[1][1])

Universe == generateVariablesUpDegree(2 * d, Arity)
Basis(r) == generateVariablesUpDegree(r, Arity)

FamilyShape(Family, dim) ==
  /\ Len(Family) = Len(Universe)
  /\ \A pos \in 1..Len(Family) :
       /\ Len(Family[pos]) = dim
       /\ \A i \in 1..dim : Len(Family[pos][i]) = dim

\* --------------------------------------------------------------- claims

\* C1: when g is not empty and d < max_i ceil(deg(g_i)/2), POPSolver(f, g, d) raises
\* the ValueError "The relaxation order has to be at least {:d}." whose number is
\* exactly max_i ceil(deg(g_i)/2), and the object has no attribute yet: neither n,
\* d, MM, LM, c nor SDP has been assigned.
C1_OrderTooLowRaises ==
  (pc # "new" /\ g # <<>> /\ d < RequiredOrder(g)) =>
     /\ pc = "failed"
     /\ outcome = [kind |-> "raise",
                   error |-> [type |-> "ValueError",
                              msg |-> "The relaxation order has to be at least {:d}.",
                              arg |-> RequiredOrder(g)]]
     /\ DOMAIN self = {"class"}

\* a constraint of degree 4 with d = 1 has been refused, the message reporting 2
C1_Witness ==
  /\ pc = "failed"
  /\ d = 1
  /\ g = <<GQuartic(Arity)>>
  /\ outcome.error.arg = 2

\* C2: in self.MM, the family momentMatrix(d, Universe) returned, every entry is 0
\* or 1; for every (i, j) at most one pos has Family[pos][i, j] = 1, and that pos
\* has Universe[pos] = Basis_d[i] + Basis_d[j].
C2_MomentFamily ==
  pc = "ready" =>
    LET B == Basis(d)
        U == Universe
        Family == self.MM
    IN /\ FamilyShape(Family, Len(B))
       /\ \A i, j \in 1..Len(B) :
            /\ \A pos \in 1..Len(U) : Family[pos][i][j] \in {0, 1}
            /\ Cardinality({pos \in 1..Len(U) : Family[pos][i][j] = 1}) <= 1
            /\ \A pos \in 1..Len(U) :
                 Family[pos][i][j] = 1 => U[pos] = TupleSum(B[i], B[j])

\* a moment family with a 1 off the diagonal, at the position of the sum of two
\* different basis monomials
C2_Witness ==
  /\ pc = "ready"
  /\ d >= 1
  /\ \E pos \in 1..Len(self.MM) : \E i, j \in 1..Len(self.MM[pos]) :
       i # j /\ self.MM[pos][i][j] = 1

\* C3: in self.LM[t], the family localizingMatrix(r, Universe, g_t) returned with
\* r = d - ceil(deg(g_t)/2), the entry Family[pos][i, j] is, for every pos and every
\* (i, j) in either order, the sum of the coefficients of the monomials mon of g_t
\* with Basis_r[i] + Basis_r[j] + mon = Universe[pos]: the matrices are symmetric
\* and a diagonal cell gets each coefficient once.
C3_LocalizingFamily ==
  pc = "ready" =>
    \A t \in 1..Len(g) :
      LET B == Basis(d - HalfDegree(g[t]))
          U == Universe
          Family == self.LM[t]
      IN /\ FamilyShape(Family, Len(B))
         /\ \A pos \in 1..Len(U) : \A i, j \in 1..Len(B) :
              /\ Family[pos][i][j] =
                   SeqSum([k \in 1..Len(g[t]) |->
                      IF TupleSum(TupleSum(B[i], B[j]), g[t][k][1]) = U[pos]
                      THEN g[t][k][2] ELSE 0])
              /\ Family[pos][i][j] = Family[pos][j][i]

\* the localizing family of a constraint of two monomials, of order r >= 1, with a
\* non-zero entry on the diagonal and one off it
C3_Witness ==
  /\ pc = "ready"
  /\ \E t \in 1..Len(g) :
       /\ Len(g[t]) = 2
       /\ d - HalfDegree(g[t]) >= 1
       /\ \E pos \in 1..Len(self.LM[t]) : \E i, j \in 1..Len(self.LM[t][pos]) :
            i # j /\ self.LM[t][pos][i][j] # 0 /\ self.LM[t][pos][i][i] # 0

\* C4: self.c has length |Universe| - 1 and its k-th entry (1 <= k < |Universe|,
\* c[k-1] in Python) is the coefficient of Universe[k] in f; the coefficient of the
\* constant monomial is nowhere in c, so c is also the objective vector of f with
\* any other constant term.
C4_ObjectiveVector ==
  pc = "ready" =>
    LET U == Universe
    IN /\ Len(self.c) = Len(U) - 1
       /\ \A k \in 1..(Len(U) - 1) :
            /\ U[k + 1] # Zero(Arity)
            /\ self.c[k] = Coefficient(f, U[k + 1])
       /\ \A v \in {0, 9} :
            self.c = objective([k \in 1..Len(f) |->
                                  IF f[k][1] = Zero(Arity) THEN <<f[k][1], v>> ELSE f[k]], U)
       /\ self.SDP.c = self.c

\* f = 5 + 3 x_n^2: the 3 is in c at the place of x_n^2, the 5 is not in c
C4_Witness ==
  /\ pc = "ready"
  /\ d >= 1
  /\ Coefficient(f, Zero(Arity)) = 5
  /\ \E k \in 1..Len(self.c) : self.c[k] = 3 /\ Universe[k + 1] = Unit(Arity, Arity, 2)
  /\ \A k \in 1..Len(self.c) : self.c[k] # 5

\* C5, as claimed: whenever d >= ceil(deg(g_i)/2) for every constraint of g, the empty
\* list included, the construction succeeds and the engine is given 1 + |g| families,
\* the moment family first, then the localizing family of each constraint in the
\* order of g, each of |Universe| matrices, the i-th of dimension
\* |Basis of degree d - ceil(deg(g_i)/2)|.
C5_EveryListConstructs ==
  (pc # "new" /\ \A t \in 1..Len(g) : d >= HalfDegree(g[t])) =>
     /\ pc = "ready"
     /\ Len(self.SDP.AAll) = 1 + Len(g)
     /\ self.SDP.AAll[1] = self.MM
     /\ FamilyShape(self.MM, Len(Basis(d)))
     /\ \A t \in 1..Len(g) :
          /\ self.SDP.AAll[t + 1] = self.LM[t]
          /\ self.LM[t] = localizingMatrix(Arity, d - HalfDegree(g[t]), Universe, g[t])
          /\ FamilyShape(self.LM[t], Len(Basis(d - HalfDegree(g[t]))))

\* C10: after a successful construction every lookup of the assembly finds its
\* monomial, at exactly one position of the Universe: Basis_d[i] + Basis_d[j] in
\* momentMatrix, Basis_r[i] + Basis_r[j] + mon in localizingMatrix, each of degree
\* <= 2d.  So every cell (i, j) of the moment matrix has its 1 in some matrix of
\* the family, and in every localizing family the entries of a cell (i, j), summed
\* over the family, are the sum of all the coefficients of the constraint.
C10_NothingDropped ==
  pc = "ready" =>
    LET U == generateVariablesUpDegree(2 * self.d, self.n)
        B == generateVariablesUpDegree(self.d, self.n)
    IN /\ \A i, j \in 1..Len(B) :
            /\ i <= j => /\ Len(Index(U, MMvarCur(B, i, j))) = 1
                         /\ Degree(MMvarCur(B, i, j)) <= 2 * self.d
            /\ \E pos \in 1..Len(U) : self.MM[pos][i][j] = 1
       /\ \A t \in 1..Len(g) :
            LET Br == generateVariablesUpDegree(LMorder(self.d, gDegsHalf(g)[t]), self.n)
            IN \A i, j \in 1..Len(Br) :
                 /\ i <= j => \A k \in 1..Len(g[t]) :
                      /\ Len(Index(U, LMvarCur(Br, i, j, g[t][k][1]))) = 1
                      /\ Degree(LMvarCur(Br, i, j, g[t][k][1])) <= 2 * self.d
                 /\ SeqSum([pos \in 1..Len(U) |-> self.LM[t][pos][i][j]])
                      = SeqSum([k \in 1..Len(g[t]) |-> g[t][k][2]])

\* a construction whose sums reach the top degree 2d: d = 2 with a constraint of
\* degree 4 (r = 0) and one of degree 2 (r = 1)
C10_Witness ==
  /\ pc = "ready"
  /\ d = 2
  /\ Len(g) = 3
  /\ \E pos \in 1..Len(self.LM[3]) :
       Degree(Universe[pos]) = 4 /\ self.LM[3][pos][2][2] # 0

\* the value of the monomial alpha at the point x
MonomialValue(x, alpha) ==
  LET RECURSIVE P(_)
      P(j) == IF j = 0 THEN 1 ELSE P(j - 1) * Pow(x[j], alpha[j])
  IN P(Len(alpha))

\* C(n+d, n): the number of monomials of degree <= d in n variables
MonomialCount == Cardinality({m \in [1..Arity -> 0..d] : SeqSum(m) <= d})

\* C6: getFeasiblePoint(xs) raises the ValueError "You must provide at least {:d}
\* points.", its number C(n+d, n), exactly when len(xs) < C(n+d, n); the call then
\* returns no vector.  With at least C(n+d, n) points it returns.
C6_TooFewSamplesRaise ==
  call.op = "getFeasiblePoint" =>
    /\ Len(call.xs) < MonomialCount =>
         outcome = [kind |-> "raise",
                    error |-> [type |-> "ValueError",
                               msg |-> "You must provide at least {:d} points.",
                               arg |-> MonomialCount]]
    /\ Len(call.xs) >= MonomialCount => outcome.kind = "return"

\* C(2+1, 2) - 1 = 2 points have been refused, the message asking for 3
C6_Witness ==
  /\ call.op = "getFeasiblePoint"
  /\ Arity = 2 /\ d = 1
  /\ Len(call.xs) = 2
  /\ outcome.kind = "raise"
  /\ outcome.error.arg = 3

\* C7, as claimed: for a singleton list [x0], getFeasiblePoint returns y with
\* y[alpha] = prod_j x0_j^alpha_j for every alpha of usedVars.
C7_SingletonReturnsMoments ==
  (call.op = "getFeasiblePoint" /\ Len(call.xs) = 1) =>
     /\ outcome.kind = "return"
     /\ LET usedVars == Tail(Universe)
        IN /\ Len(outcome.value.sum) = Len(usedVars)
           /\ \A alpha \in 1..Len(usedVars) :
                outcome.value.sum[alpha]
                  = outcome.value.over * MonomialValue(call.xs[1], usedVars[alpha])

\* C7, amended: getFeasiblePoint(xs) returns only when len(xs) >= C(n+d, n), and then
\* y[alpha] = (sum over x in xs of prod_j x_j^alpha_j) / len(xs) for every alpha of
\* usedVars.  For a singleton [x0] it returns, y[alpha] = prod_j x0_j^alpha_j, only
\* when d = 0, where usedVars is empty; for d >= 1 it raises the ValueError of
\* too few points.
C7_ReturnsEmpiricalMoments ==
  call.op = "getFeasiblePoint" =>
    /\ Len(call.xs) = 1 => (outcome.kind = "return" <=> d = 0)
    /\ Len(call.xs) = 1 /\ d >= 1 =>
         /\ outcome.kind = "raise"
         /\ outcome.error.msg = "You must provide at least {:d} points."
    /\ outcome.kind = "return" =>
         LET usedVars == Tail(Universe)
         IN /\ Len(call.xs) >= MonomialCount
            /\ outcome.value.over = Len(call.xs)
            /\ Len(outcome.value.sum) = Len(usedVars)
            /\ \A alpha \in 1..Len(usedVars) :
                 outcome.value.sum[alpha]
                   = SeqSum([s \in 1..Len(call.xs) |->
                               MonomialValue(call.xs[s], usedVars[alpha])])

\* the moments of three points of the plane, not all the same, have been returned
C7_Witness ==
  /\ call.op = "getFeasiblePoint"
  /\ Arity = 2 /\ d = 1
  /\ Len(call.xs) = 3
  /\ call.xs[1] # call.xs[2]
  /\ outcome.kind = "return"
  /\ \E alpha \in 1..Len(outcome.value.sum) : outcome.value.sum[alpha] = 3

\* C8: momentMatrixRank() raises the ValueError of an unsolved problem when no solve()
\* has been called on the object, and after a solve() it returns the first of the
\* ranks the engine reports, that of the moment family, the first family the
\* engine was given.
C8_RankOnlyAfterSolve ==
  call.op = "momentMatrixRank" =>
    /\ self.SDP.AAll[1] = self.MM
    /\ IF solveInvoked
       THEN outcome = [kind |-> "return", value |-> self.SDP.ranks[1]]
       ELSE outcome = [kind |-> "raise",
                       error |-> [type |-> "ValueError",
                                  msg |-> "The problem has not been solved yet.",
                                  arg |-> 0]]

\* the rank has been asked after a solve that left the moment family and the last
\* family with different ranks
C8_Witness ==
  /\ call.op = "momentMatrixRank"
  /\ solveInvoked
  /\ self.SDP.ranks[1] # self.SDP.ranks[Len(self.SDP.ranks)]
  /\ outcome.kind = "return"

\* C9: in the loop of getFeasiblePointFromRadius(R), i is the number of points in xs
\* and every point of xs has norm < R; if a point inside the ball is eventually
\* drawn whenever the loop runs, a loop with R > 0 ends, with exactly
\* N = ceil(1.5 C(n+d, n) + 1) points, and what the call returns is what
\* getFeasiblePoint makes of these N points; with R <= 0 the loop is never left.
C9_RejectionLoop ==
  /\ [](rpc \in {"loop", "done"} =>
          /\ loc.i = Len(loc.xs)
          /\ loc.i <= loc.N
          /\ loc.N = (3 * MonomialCount + 3) \div 2
          /\ \A s \in 1..Len(loc.xs) :
               loc.R > 0 /\ SumSq(loc.xs[s]) < loc.R * loc.R)
  /\ [](rpc = "done" =>
          /\ Len(loc.xs) = (3 * MonomialCount + 3) \div 2
          /\ outcome.kind = "return"
          /\ outcome.value.over = Len(loc.xs)
          /\ \A alpha \in 1..Len(outcome.value.sum) :
               outcome.value.sum[alpha]
                 = SeqSum([s \in 1..Len(loc.xs) |->
                             MonomialValue(loc.xs[s], Universe[alpha + 1])]))
  /\ ((rpc = "loop" /\ loc.R > 0) ~> (rpc \in {"loop", "done"} /\ loc.i = loc.N))
  /\ [][(rpc = "loop" /\ loc.R <= 0) => rpc' = "loop"]_vars

\* a call with R = 2 has returned the moments of points of which two differ
C9_Witness ==
  /\ rpc = "done"
  /\ loc.R = 2
  /\ d >= 1
  /\ \E s, t \in 1..Len(loc.xs) : loc.xs[s] # loc.xs[t]
  /\ outcome.kind = "return"

====
